---- MODULE Spec2Model ----
(***************************************************************************)
(* SaifuFinanceBot (src/saifu_finance_bot.py): the /catat conversation,    *)
(* the Google Sheets gateway and the weekly / monthly report.              *)
(*                                                                         *)
(* Texts are sequences of one-character strings, so that strip(), lower(), *)
(* replace(), isdigit(), float() and startswith() are computed as Python   *)
(* computes them.  A Python dict is a function whose DOMAIN is the set of  *)
(* keys present.  A float is a pair <<n, d>> denoting n / d, d a power of  *)
(* ten, without trailing zeros.                                            *)
(***************************************************************************)
EXTENDS Integers, Sequences, FiniteSets, TLC

\* ------------------------------------------------------------- bounds
\* Chats and users that send updates; rows the sheet may hold; clock values;
\* length of the texts enumerated for the amount prompt; records per summary.
NChats == 2
NUsers == 1
MaxRows == 1
MaxTime == 1
MaxLen == 3
MaxRecords == 2
MaxCalls == 2

Chats == 1..NChats
Users == 1..NUsers
Times == 1..MaxTime

\* ------------------------------------------------------------- str methods
Digits == <<"0", "1", "2", "3", "4", "5", "6", "7", "8", "9">>
UpperCase == <<"A", "B", "C", "D", "E", "F", "G", "H", "I", "J", "K", "L", "M",
               "N", "O", "P", "Q", "R", "S", "T", "U", "V", "W", "X", "Y", "Z">>
LowerCase == <<"a", "b", "c", "d", "e", "f", "g", "h", "i", "j", "k", "l", "m",
               "n", "o", "p", "q", "r", "s", "t", "u", "v", "w", "x", "y", "z">>
Whitespace == {" ", "\n"}

Range(s) == {s[i] : i \in DOMAIN s}
DigitChars == Range(Digits)

\* str.strip(): leading and trailing whitespace removed
RECURSIVE lstrip(_)
lstrip(s) == IF s # <<>> /\ Head(s) \in Whitespace THEN lstrip(Tail(s)) ELSE s

RECURSIVE rstrip(_)
rstrip(s) ==
    IF s # <<>> /\ s[Len(s)] \in Whitespace
    THEN rstrip(SubSeq(s, 1, Len(s) - 1))
    ELSE s

strip(s) == rstrip(lstrip(s))

\* str.lower(), character by character
LowerOf ==
    [c \in Range(UpperCase) |-> LowerCase[CHOOSE i \in DOMAIN UpperCase : UpperCase[i] = c]]
lowerChar(c) == IF c \in DOMAIN LowerOf THEN LowerOf[c] ELSE c

lower(s) == [i \in DOMAIN s |-> lowerChar(s[i])]

\* str.replace(ch, ''): every occurrence of the character removed
remove(s, ch) == SelectSeq(s, LAMBDA c : c # ch)

\* str.isdigit(): non-empty and every character a digit
isdigit(s) == s # <<>> /\ \A i \in DOMAIN s : s[i] \in DigitChars

\* str.startswith(prefix)
startswith(s, prefix) ==
    Len(s) >= Len(prefix) /\ SubSeq(s, 1, Len(prefix)) = prefix

digitValue(c) == (CHOOSE i \in DOMAIN Digits : Digits[i] = c) - 1

RECURSIVE digitsToInt(_)
digitsToInt(s) ==
    IF s = <<>> THEN 0
    ELSE 10 * digitsToInt(SubSeq(s, 1, Len(s) - 1)) + digitValue(s[Len(s)])

RECURSIVE Pow10(_)
Pow10(k) == IF k = 0 THEN 1 ELSE 10 * Pow10(k - 1)

RECURSIVE normFloat(_)
normFloat(f) ==
    IF f[2] > 1 /\ f[1] % 10 = 0 THEN normFloat(<<f[1] \div 10, f[2] \div 10>>) ELSE f

\* float(text) raises ValueError unless the text is a decimal literal; for a text
\* of digits and dots (the only ones catat_jumlah passes on) that is: exactly
\* the texts with at most one dot and a digit
floatRaises(s) ==
    \/ Cardinality({i \in DOMAIN s : s[i] = "."}) > 1
    \/ remove(s, ".") = <<>>
    \/ \E i \in DOMAIN s : s[i] \notin DigitChars \cup {"."}

float(s) ==
    LET dot == IF \E i \in DOMAIN s : s[i] = "."
               THEN CHOOSE i \in DOMAIN s : s[i] = "."
               ELSE Len(s) + 1
    IN normFloat(<<digitsToInt(remove(s, ".")), Pow10(IF dot > Len(s) THEN 0 ELSE Len(s) - dot)>>)

\* int(f): truncation toward zero
int(f) == IF f[1] >= 0 THEN f[1] \div f[2] ELSE -((-f[1]) \div f[2])

\* ------------------------------------------------------------- binary64
\* A Python float is an IEEE 754 binary64.  The floats the dialogs and the
\* bot's own rows produce (5.0, 1.5, sums of a few of them) are exact in
\* binary64 and so are their sums and differences: those are kept as the pair
\* <<n, d>> of the decimal n / d.  A float that is not such a decimal (0.1 read
\* from a cell) is kept as <<bits, exp, BINARY64>>: the bits of its significand,
\* most significant first, without leading or trailing zeros, and the exponent
\* of the last bit; an addition with one rounds to Significand bits, to nearest,
\* ties to even.  Overflow to inf is out of the ranges modelled.
Significand == 53
BINARY64 == "binary64"

repeat(s, k) == [i \in 1..(k * Len(s)) |-> s[((i - 1) % Len(s)) + 1]]

\* bit i of X counted from the last one, 0 beyond its length
bitAt(X, i) == IF i < Len(X) THEN X[Len(X) - i] ELSE "0"

\* the sum of two bit strings, carries resolved by look-ahead
addBits(A, B) ==
    LET n == (IF Len(A) >= Len(B) THEN Len(A) ELSE Len(B)) + 1
        carry(i) == \E j \in 0..(i - 1) :
                        /\ bitAt(A, j) = "1" /\ bitAt(B, j) = "1"
                        /\ \A k \in (j + 1)..(i - 1) : bitAt(A, k) = "1" \/ bitAt(B, k) = "1"
    IN  [p \in 1..n |->
            IF (bitAt(A, n - p) = "1") = ((bitAt(B, n - p) = "1") = carry(n - p))
            THEN "1" ELSE "0"]

canonical(X, e) ==
    LET ones == {i \in DOMAIN X : X[i] = "1"}
    IN  IF ones = {} THEN <<<<>>, 0, BINARY64>>
        ELSE LET first == CHOOSE i \in ones : \A j \in ones : i <= j
                 last  == CHOOSE i \in ones : \A j \in ones : i >= j
             IN  <<SubSeq(X, first, last), e + (Len(X) - last), BINARY64>>

roundNearestEven(f) ==
    LET X == f[1]
    IN  IF Len(X) <= Significand THEN f
        ELSE LET head == SubSeq(X, 1, Significand)
                 up == /\ X[Significand + 1] = "1"
                       /\ \/ head[Significand] = "1"
                          \/ \E i \in (Significand + 2)..Len(X) : X[i] = "1"
             IN  canonical(IF up THEN addBits(head, <<"1">>) ELSE head,
                           f[2] + (Len(X) - Significand))

addBinary64(a, b) ==
    LET e == IF a[2] <= b[2] THEN a[2] ELSE b[2]
    IN  roundNearestEven(canonical(addBits(a[1] \o repeat(<<"0">>, a[2] - e),
                                           b[1] \o repeat(<<"0">>, b[2] - e)), e))

RECURSIVE Pow5(_)
Pow5(k) == IF k = 0 THEN 1 ELSE 5 * Pow5(k - 1)

RECURSIVE intBits(_)
intBits(n) ==
    IF n = 0 THEN <<>> ELSE intBits(n \div 2) \o <<IF n % 2 = 1 THEN "1" ELSE "0">>

isBinary64(f) == Len(f) = 3

\* the binary64 of a non-negative decimal n / 10^k that binary64 holds exactly
toBinary64(f) ==
    IF isBinary64(f) THEN f
    ELSE LET k == CHOOSE k \in 0..9 : Pow10(k) = f[2]
         IN  CASE f[1] >= 0 /\ f[1] % Pow5(k) = 0 ->
                     roundNearestEven(canonical(intBits(f[1] \div Pow5(k)), -k))

\* float + float, float - float
addFloat(a, b) ==
    IF isBinary64(a) \/ isBinary64(b) THEN addBinary64(toBinary64(a), toBinary64(b))
    ELSE LET d == IF a[2] >= b[2] THEN a[2] ELSE b[2]
         IN  normFloat(<<a[1] * (d \div a[2]) + b[1] * (d \div b[2]), d>>)

subFloat(a, b) == addFloat(a, <<-b[1], b[2]>>)

\* ------------------------------------------------------------- dict
EmptyDict == [k \in {} |-> 0]
Put(d, k, v) == [x \in DOMAIN d \cup {k} |-> IF x = k THEN v ELSE d[x]]
Has(d, k) == k \in DOMAIN d

\* ------------------------------------------------------------- texts
PEMASUKAN == <<"p", "e", "m", "a", "s", "u", "k", "a", "n">>
PENGELUARAN == <<"p", "e", "n", "g", "e", "l", "u", "a", "r", "a", "n">>
YA == <<"y", "a">>
Y == <<"y">>
YES == <<"y", "e", "s">>
LAIN_LAIN == <<"L", "a", "i", "n", "-", "l", "a", "i", "n">>

\* Conversation states (range(5)) and ConversationHandler.END
JUMLAH == "JUMLAH"
JENIS == "JENIS"
KATEGORI == "KATEGORI"
DESKRIPSI == "DESKRIPSI"
KONFIRM == "KONFIRM"
END == "END"
States == {JUMLAH, JENIS, KATEGORI, DESKRIPSI, KONFIRM}

\* A conversation is keyed by (chat id, user id): ConversationHandler's default
\* per_chat = per_user = True.  NoState: the key is absent from its dict.
Keys == Chats \X Users
NoState == "None"
chatOf(k) == k[1]
userOf(k) == k[2]

\* ------------------------------------------------------------- timestamps
\* A well-formed date text is kept as its format and the instant it denotes
\* (for the date-only format, that day's midnight); time is counted in days.
\* Any other text is a character sequence, which no format parses.
DATETIME_FMT == "%Y-%m-%d %H:%M:%S"
DATE_FMT == "%Y-%m-%d"
strftime(t) == [fmt |-> DATETIME_FMT, t |-> t]
strptimeRaises(date, fmt) == date.fmt # fmt
strptime(date, fmt) == date.t

\* ------------------------------------------------------------- Python values
\* The values a record (a dict of get_all_records) holds, tagged by type: an
\* int n, a float (the bits s and exponent n of a binary64), a str of characters
\* s, or a str that is a well-formed date text d.
NoDate == [fmt |-> "", t |-> 0]
PyNone == [py |-> "None", n |-> 0, s |-> <<>>, d |-> NoDate]
PyInt(n) == [py |-> "int", n |-> n, s |-> <<>>, d |-> NoDate]
PyStr(s) == [py |-> "str", n |-> 0, s |-> s, d |-> NoDate]
PyDate(d) == [py |-> "date", n |-> 0, s |-> <<>>, d |-> d]
PyFloat(f) == [py |-> "float", n |-> f[2], s |-> f[1], d |-> NoDate]

\* bool(x): None, 0, 0.0 and '' are false; a date text is a non-empty str
truthy(x) ==
    CASE x.py = "None" -> FALSE
      [] x.py = "int" -> x.n # 0
      [] x.py = "float" -> x.s # <<>>
      [] x.py = "str" -> x.s # <<>>
      [] x.py = "date" -> TRUE

\* dict.get(key) and the short-circuit a or b
get(r, k) == IF k \in DOMAIN r THEN r[k] ELSE PyNone
or(a, b) == IF truthy(a) THEN a ELSE b
same(a, b) == a = b

\* ------------------------------------------------------------- replies
\* a message sent to the chat: what it says, the values it shows and, for a
\* document, the text of the attached file
Reply(msg, data) == [msg |-> msg, data |-> data, text |-> <<>>]
Document(filename, data, text) == [msg |-> filename, data |-> data, text |-> text]
Text(msg) == Reply(msg, <<>>)

\* What a handler did: whether it raised, the state it returned, its replies in
\* order, and the user_data dict and the worksheet as it leaves them.
Result(raised, ret, replies, ud, ws) ==
    [raised |-> raised, ret |-> ret, replies |-> replies, ud |-> ud, ws |-> ws]

\* ------------------------------------------------------------- gateway
\* init_gspread: raises when the credentials, the spreadsheet or the worksheet
\* cannot be opened (connectOk = FALSE)
init_gspread(connectOk) == [raised |-> ~connectOk]

\* What the remote store does to the calls of one update: all succeed, the
\* connect fails, or the connect succeeds and the row call (append, read) fails
OK == "ok"
CONNECT_FAILS == "connect fails"
APPEND_FAILS == "append fails"
READ_FAILS == "read fails"
NO_REMOTE == "no remote call"

worksheet_append_row_AtTop(ws, row, ok) ==
    [raised |-> ~ok, ws |-> IF ok THEN <<row>> \o ws ELSE ws]

\* gspread Worksheet.append_row: appends the row or raises, leaving the sheet
worksheet_append_row(ws, row, ok) ==
    [raised |-> ~ok, ws |-> IF ok THEN Append(ws, row) ELSE ws]

append_transaction_AlwaysTrue(ws, row, ok) ==
    [ret |-> TRUE, ws |-> worksheet_append_row(ws, row, ok).ws]

append_transaction(ws, row, ok) ==
    LET r == worksheet_append_row(ws, row, ok)
    IN  [ret |-> ~r.raised, ws |-> r.ws]

\* gspread numericise: a cell whose text is an integer literal is read as int
numericise(s) == IF isdigit(s) THEN PyInt(digitsToInt(s)) ELSE PyStr(s)

\* gspread Worksheet.get_all_records under the header row the bot documents:
\* one dict per row, in sheet order.  A row holds what catat_konfirm wrote: a
\* date text, three texts and two ints.
get_all_records(ws) ==
    [i \in DOMAIN ws |->
        [Tanggal |-> PyDate(ws[i][1]), Jenis |-> numericise(ws[i][2]),
         Jumlah |-> PyInt(ws[i][3]), Kategori |-> numericise(ws[i][4]),
         Deskripsi |-> numericise(ws[i][5]), User |-> PyInt(ws[i][6])]]

read_all_transactions(ws, ok) == IF ok THEN get_all_records(ws) ELSE <<>>

\* ------------------------------------------------------------- /catat handlers
catat_start(ud, ws) == Result(FALSE, JUMLAH, <<Text("Masukin jumlah")>>, ud, ws)

catat_jumlah(text, ud, ws) ==
    LET t == remove(strip(text), ",")
    IN  IF ~isdigit(remove(t, "."))
        THEN Result(FALSE, JUMLAH, <<Text("Jumlah tidak valid")>>, ud, ws)
        ELSE IF floatRaises(t)
        THEN Result(TRUE, NoState, <<>>, ud, ws)
        ELSE Result(FALSE, JENIS, <<Text("Jenis transaksi?")>>,
                    Put(ud, "jumlah", float(t)), ws)

catat_jenis_CaseSensitive(text, ud, ws) ==
    LET jenis == strip(text)
    IN  IF jenis \notin {PEMASUKAN, PENGELUARAN}
        THEN Result(FALSE, JENIS, <<Text("Pilih pemasukan atau pengeluaran")>>, ud, ws)
        ELSE Result(FALSE, KATEGORI, <<Text("Kategori")>>, Put(ud, "jenis", jenis), ws)

catat_jenis(text, ud, ws) ==
    LET jenis == lower(strip(text))
    IN  IF jenis \notin {PEMASUKAN, PENGELUARAN}
        THEN Result(FALSE, JENIS, <<Text("Pilih pemasukan atau pengeluaran")>>, ud, ws)
        ELSE Result(FALSE, KATEGORI, <<Text("Kategori")>>, Put(ud, "jenis", jenis), ws)

\* user_data.setdefault('kategori', ...): a category already in the session stays
catat_kategori_KeepFirst(text, ud, ws) ==
    Result(FALSE, DESKRIPSI, <<Text("Deskripsi singkat")>>,
           IF Has(ud, "kategori") THEN ud ELSE Put(ud, "kategori", strip(text)), ws)

catat_kategori_Skip(text, ud, ws) ==
    Result(FALSE, KONFIRM, <<Text("Deskripsi singkat")>>,
           Put(ud, "kategori", strip(text)), ws)

catat_kategori(text, ud, ws) ==
    Result(FALSE, DESKRIPSI, <<Text("Deskripsi singkat")>>,
           Put(ud, "kategori", strip(text)), ws)

\* user_data.get(key) gives None for a missing key, and int(None) raises
catat_deskripsi(text, ud, ws) ==
    LET deskripsi == strip(text)
        ud2 == Put(ud, "deskripsi", deskripsi)
    IN  IF ~Has(ud2, "jumlah")
        THEN Result(TRUE, NoState, <<>>, ud2, ws)
        ELSE Result(FALSE, KONFIRM,
                    <<Reply("Konfirmasi",
                            <<IF Has(ud2, "jenis") THEN ud2["jenis"] ELSE <<>>,
                              int(ud2["jumlah"]),
                              IF Has(ud2, "kategori") THEN ud2["kategori"] ELSE <<>>,
                              IF deskripsi # <<>> THEN deskripsi ELSE <<"-">> >>)>>,
                    ud2, ws)

\* text.strip().lower() in ('ya', 'y', 'yes')
affirmative_FirstLetter(text) ==
    LET t == lower(strip(text)) IN t # <<>> /\ Head(t) = "y"

affirmative(text) == lower(strip(text)) \in {YA, Y, YES}

\* env: what the remote store does to this update's calls.  Line 160 (an unused
\* now = datetime.utcnow().isoformat()) ends in a stray backquote, read here as
\* the statement without it.
catat_konfirm(text, ud, ws, uid, now, env) ==
    IF ~affirmative(text)
    THEN Result(FALSE, END, <<Text("Transaksi dibatalkan")>>, ud, ws)
    ELSE IF init_gspread(env # CONNECT_FAILS).raised
    THEN Result(TRUE, NoState, <<>>, ud, ws)
    ELSE IF ~({"jenis", "jumlah", "kategori", "deskripsi"} \subseteq DOMAIN ud)
    THEN Result(TRUE, NoState, <<>>, ud, ws)
    ELSE LET row == <<strftime(now), ud["jenis"], int(ud["jumlah"]),
                      ud["kategori"], ud["deskripsi"], uid>>
             ok == append_transaction(ws, row, env # APPEND_FAILS)
         IN  Result(FALSE, END,
                    <<IF ok.ret THEN Text("Sukses") ELSE Text("Gagal menyimpan transaksi")>>,
                    ud, ok.ws)

cancel(ud, ws) == Result(FALSE, END, <<Text("Oke, dibatalkan")>>, ud, ws)

\* ------------------------------------------------------------- laporan
\* float(x) of a record value: an int and a float convert; a str converts when,
\* stripped, it is a decimal literal; otherwise ValueError
pyFloatRaises(x) ==
    CASE x.py = "int" -> FALSE
      [] x.py = "float" -> FALSE
      [] x.py = "str" -> floatRaises(strip(x.s))
      [] OTHER -> TRUE

pyFloat(x) ==
    CASE x.py = "int" -> <<x.n, 1>>
      [] x.py = "float" -> <<x.s, x.n, BINARY64>>
      [] OTHER -> float(strip(x.s))

\* by_category[kategori] = jumlah, the earlier amounts of the category lost
addCategory_Overwrite(by_category, kategori, jumlah) ==
    IF \E i \in DOMAIN by_category : same(by_category[i][1], kategori)
    THEN [i \in DOMAIN by_category |->
            IF same(by_category[i][1], kategori) THEN <<kategori, jumlah>>
            ELSE by_category[i]]
    ELSE Append(by_category, <<kategori, jumlah>>)

\* by_category[kategori] = by_category.get(kategori, 0) + jumlah, the dict kept
\* as its items in insertion order
addCategory(by_category, kategori, jumlah) ==
    IF \E i \in DOMAIN by_category : same(by_category[i][1], kategori)
    THEN [i \in DOMAIN by_category |->
            IF same(by_category[i][1], kategori)
            THEN <<kategori, addFloat(by_category[i][2], jumlah)>>
            ELSE by_category[i]]
    ELSE Append(by_category, <<kategori, jumlah>>)

\* dt < since_date
beforeWindow_Inclusive(dt, since_date) == dt <= since_date

beforeWindow(dt, since_date) == dt < since_date

\* jenis and jenis.lower().startswith('pemasukan'), for a str or None
isPemasukan_CaseSensitive(jenis) == truthy(jenis) /\ startswith(jenis.s, PEMASUKAN)

isPemasukan(jenis) == truthy(jenis) /\ startswith(lower(jenis.s), PEMASUKAN)

\* One iteration of generate_summary's loop over record r (the i-th) on the
\* running totals acc; any exception in the body skips the record.  income and
\* expense list the records added to each total.
summaryStep(acc, r, i, since_date) ==
    LET t == or(or(get(r, "Tanggal"), get(r, "tanggal")), get(r, "Timestamp"))
        jenis == or(or(get(r, "Jenis"), get(r, "jenis")),
                    get(r, "Jenis (Pemasukan/Pengeluaran)"))
        cell == or(or(get(r, "Jumlah"), get(r, "jumlah")), PyInt(0))
        kategori == or(or(get(r, "Kategori"), get(r, "kategori")), PyStr(LAIN_LAIN))
    IN  IF ~truthy(t) THEN acc
        ELSE IF t.py # "date" THEN acc
        ELSE IF strptimeRaises(t.d, IF t.d.fmt = DATETIME_FMT THEN DATETIME_FMT ELSE DATE_FMT)
        THEN acc
        ELSE IF beforeWindow(strptime(t.d, t.d.fmt), since_date) THEN acc
        ELSE IF pyFloatRaises(cell) THEN acc
        ELSE IF truthy(jenis) /\ jenis.py # "str" THEN acc
        ELSE IF isPemasukan(jenis)
        THEN [acc EXCEPT !.total_pemasukan = addFloat(@, pyFloat(cell)),
                         !.income = Append(@, i)]
        ELSE [acc EXCEPT !.total_pengeluaran = addFloat(@, pyFloat(cell)),
                         !.by_category = addCategory(@, kategori, pyFloat(cell)),
                         !.expense = Append(@, i)]

RECURSIVE summaryLoop(_, _, _, _)
summaryLoop(acc, records, i, since_date) ==
    IF i > Len(records) THEN acc
    ELSE summaryLoop(summaryStep(acc, records[i], i, since_date), records, i + 1, since_date)

generate_summary(records, since_date) ==
    summaryLoop([total_pemasukan |-> <<0, 1>>, total_pengeluaran |-> <<0, 1>>,
                 by_category |-> <<>>, income |-> <<>>, expense |-> <<>>],
                records, 1, since_date)

\* a < b on floats
lessFloat(a, b) == a[1] * b[2] < b[1] * a[2]

RECURSIVE insertDescending_TiesFirst(_, _)
insertDescending_TiesFirst(s, x) ==
    IF s = <<>> THEN <<x>>
    ELSE IF ~lessFloat(x[2], Head(s)[2]) THEN <<x>> \o s
    ELSE <<Head(s)>> \o insertDescending_TiesFirst(Tail(s), x)

\* sorted(items, key=lambda x: x[1], reverse=True): stable, so items of equal
\* value keep their order
RECURSIVE insertDescending(_, _)
insertDescending(s, x) ==
    IF s = <<>> THEN <<x>>
    ELSE IF lessFloat(Head(s)[2], x[2]) THEN <<x>> \o s
    ELSE <<Head(s)>> \o insertDescending(Tail(s), x)

RECURSIVE sortedDescending(_)
sortedDescending(items) ==
    IF items = <<>> THEN <<>>
    ELSE insertDescending(sortedDescending(SubSeq(items, 1, Len(items) - 1)),
                          items[Len(items)])

\* items[:n]
firstN(items, n) == SubSeq(items, 1, IF Len(items) < n THEN Len(items) ELSE n)

CSV_HEADER == <<"Tanggal", "Jenis", "Jumlah", "Kategori", "Deskripsi", "User">>
EmptyText == PyStr(<<>>)

\* the list handed to writer.writerow for record r
csvFields(r) ==
    <<or(or(get(r, "Tanggal"), get(r, "tanggal")), EmptyText),
      or(or(get(r, "Jenis"), get(r, "jenis")), EmptyText),
      or(or(get(r, "Jumlah"), get(r, "jumlah")), EmptyText),
      or(or(get(r, "Kategori"), get(r, "kategori")), EmptyText),
      or(or(get(r, "Deskripsi"), get(r, "deskripsi")), EmptyText),
      or(or(get(r, "User"), get(r, "user")), EmptyText)>>

\* str(n) of a non-negative int
RECURSIVE intToText(_)
intToText(n) ==
    IF n < 10 THEN <<Digits[n + 1]>>
    ELSE intToText(n \div 10) \o <<Digits[(n % 10) + 1]>>

\* the text of a well-formed date: day t is written as the (t+1)-th of a month,
\* the datetime format adds the time of day
twoDigits(n) == IF n < 10 THEN <<"0">> \o intToText(n) ELSE intToText(n)
dateText(d) ==
    <<"2", "0", "2", "4", "-", "0", "1", "-">> \o twoDigits(d.t + 1)
    \o (IF d.fmt = DATETIME_FMT THEN <<" ", "0", "0", ":", "0", "0", ":", "0", "0">> ELSE <<>>)

\* what csv.writer writes for a value: '' for None, str(x) otherwise
str(x) ==
    CASE x.py = "None" -> <<>>
      [] x.py = "int" -> intToText(x.n)
      [] x.py = "str" -> x.s
      [] x.py = "date" -> dateText(x.d)

\* csv.writer, excel dialect (QUOTE_MINIMAL): a field holding the delimiter, the
\* quote character or a character of the line terminator is quoted, its quote
\* characters doubled
CsvSpecial == {",", "\"", "\r", "\n"}
needsQuote(s) == \E i \in DOMAIN s : s[i] \in CsvSpecial

RECURSIVE doubleQuotes(_)
doubleQuotes(s) ==
    IF s = <<>> THEN <<>>
    ELSE (IF Head(s) = "\"" THEN <<"\"", "\"">> ELSE <<Head(s)>>) \o doubleQuotes(Tail(s))

csvField(s) == IF needsQuote(s) THEN <<"\"">> \o doubleQuotes(s) \o <<"\"">> ELSE s

RECURSIVE joinFrom(_, _)
joinFrom(fields, i) ==
    IF i > Len(fields) THEN <<>>
    ELSE IF i = Len(fields) THEN csvField(fields[i])
    ELSE csvField(fields[i]) \o <<",">> \o joinFrom(fields, i + 1)

joinFields(fields) == joinFrom(fields, 1)

\* writer.writerow(fields): the joined fields and the line terminator '\r\n'
writerow(fields) == joinFields(fields) \o <<"\r", "\n">>

CSV_HEADER_TEXTS ==
    <<<<"T", "a", "n", "g", "g", "a", "l">>, <<"J", "e", "n", "i", "s">>,
      <<"J", "u", "m", "l", "a", "h">>, <<"K", "a", "t", "e", "g", "o", "r", "i">>,
      <<"D", "e", "s", "k", "r", "i", "p", "s", "i">>, <<"U", "s", "e", "r">>>>

\* csvbuf.getvalue() after the header and one writerow per record
RECURSIVE csvRows(_)
csvRows(records) ==
    IF records = <<>> THEN <<>>
    ELSE LET fields == csvFields(Head(records))
         IN  writerow([k \in DOMAIN fields |-> str(fields[k])]) \o csvRows(Tail(records))

CSV_HEADER_LINE == writerow(CSV_HEADER_TEXTS)
csvText(records) == CSV_HEADER_LINE \o csvRows(records)

WEEK_DAYS == 7
MONTH_DAYS == 30
WEEK_TOP == 5
MONTH_TOP == 10

\* The body shared by laporan_minggu and laporan_bulan, which differ in the
\* window, the number of categories listed, the title and the file name.
laporan(ud, ws, now, env, days, top, title, filename) ==
    IF init_gspread(env # CONNECT_FAILS).raised
    THEN Result(TRUE, NoState, <<>>, ud, ws)
    ELSE LET records == read_all_transactions(ws, env # READ_FAILS)
             sum == generate_summary(records, now - days)
             items == firstN(sortedDescending(sum.by_category), top)
             text == Reply(title,
                           [pemasukan |-> int(sum.total_pemasukan),
                            pengeluaran |-> int(sum.total_pengeluaran),
                            saldo |-> int(subFloat(sum.total_pemasukan, sum.total_pengeluaran)),
                            top |-> [i \in DOMAIN items |-> <<items[i][1], int(items[i][2])>>]])
             document == Document(filename,
                                  <<CSV_HEADER>> \o [i \in DOMAIN records |-> csvFields(records[i])],
                                  csvText(records))
         IN  Result(FALSE, NoState, <<text, document>>, ud, ws)

laporan_minggu(ud, ws, now, env) ==
    laporan(ud, ws, now, env, WEEK_DAYS, WEEK_TOP,
            "Ringkasan 7 hari terakhir", "laporan_mingguan.csv")

laporan_bulan(ud, ws, now, env) ==
    laporan(ud, ws, now, env, MONTH_DAYS, MONTH_TOP,
            "Ringkasan 30 hari terakhir", "laporan_bulanan.csv")

\* ------------------------------------------------------------- other commands
start(ud, ws) == Result(FALSE, NoState, <<Text("Halo! Aku SaifuFinanceBot")>>, ud, ws)
help_cmd(ud, ws) == Result(FALSE, NoState, <<Text("/catat - Catat transaksi")>>, ud, ws)
tips_cmd(ud, ws) == Result(FALSE, NoState, <<Text("Tip keuangan")>>, ud, ws)
sheet_link(ud, ws, env) ==
    Result(FALSE, NoState,
           <<IF env # CONNECT_FAILS THEN Text("Link Google Sheet")
             ELSE Text("Gagal mendapatkan link spreadsheet")>>,
           ud, ws)

\* ------------------------------------------------------------- state
VARIABLES
    conv,        \* ConversationHandler.conversations: key -> state, NoState if absent
    user_data,   \* dispatcher.user_data: user id -> dict (context.user_data)
    sheet,       \* the worksheet's rows below the header, in order
    out,         \* the update handled last: who, what, the handler, its replies
    entered,     \* per key, the fields its running dialog has accepted so far
    records,     \* argument of the summary being computed (report specification)
    since_date,  \* its window start
    summary      \* the results of the calls made with them, in order

vars == <<conv, user_data, sheet, out, entered, records, since_date, summary>>
report == <<records, since_date, summary>>

\* ------------------------------------------------------------- inputs
AmountTexts ==
    {<<"5">>, <<"1", ".", "5">>, <<" ", "5", " ">>, <<"1", ".", ".">>, <<"-", "5">>}
TypeTexts ==
    {PEMASUKAN, <<"P", "e", "n", "g", "e", "l", "u", "a", "r", "a", "n">>,
     <<" ">> \o PEMASUKAN \o <<" ">>, <<"l", "a", "i", "n">>, <<"5">>}
CategoryTexts == {<<" ", "m", "a", "k", "a", "n", " ">>}
DescriptionTexts == {<<"n", "a", "s", "i", " ">>}
ConfirmTexts ==
    {YA, <<"Y">>, <<" ", "y", "e", "s", " ">>, <<"Y", "A">>,
     <<"b", "a", "t", "a", "l">>, <<"y", "a", "a">>, <<" ">>}

\* the clock value of an update whose handler does not read the clock
NoTime == CHOOSE t \in 0..MaxTime : t \notin Times

\* ------------------------------------------------------------- dispatcher
FieldOf(handler) ==
    CASE handler = "catat_jumlah" -> "jumlah"
      [] handler = "catat_jenis" -> "jenis"
      [] handler = "catat_kategori" -> "kategori"
      [] handler = "catat_deskripsi" -> "deskripsi"

FieldHandlers == {"catat_jumlah", "catat_jenis", "catat_kategori", "catat_deskripsi"}
ConversationHandlers == FieldHandlers \cup {"catat_start", "catat_konfirm", "cancel"}

\* ConversationHandler._update_state: END deletes the key, None keeps the state
update_state(state, new_state) ==
    IF new_state = END THEN NoState
    ELSE IF new_state = NoState THEN state
    ELSE new_state

\* Dispatcher.process_update with the handler found for the update: a handler
\* that raises leaves the conversation where it was (the exception is logged)
Handled(k, kind, text, handler, res, now, env) ==
    /\ conv' = [conv EXCEPT ![k] =
                  IF res.raised \/ handler \notin ConversationHandlers THEN @
                  ELSE update_state(@, res.ret)]
    /\ user_data' = [user_data EXCEPT ![userOf(k)] = res.ud]
    /\ sheet' = res.ws
    /\ out' = [key |-> k, kind |-> kind, text |-> text, handler |-> handler,
               raised |-> res.raised, replies |-> res.replies, now |-> now, env |-> env]
    /\ entered' = [entered EXCEPT ![k] =
                  IF res.raised \/ handler \notin ConversationHandlers THEN @
                  ELSE IF handler = "catat_start" \/ res.ret = END THEN EmptyDict
                  ELSE IF handler \in FieldHandlers /\ res.ret # conv[k]
                  THEN Put(@, FieldOf(handler), res.ud[FieldOf(handler)])
                  ELSE @]
    /\ UNCHANGED report

\* no handler of the dispatcher accepts the update
Dropped(k, kind, text) ==
    /\ out' = [key |-> k, kind |-> kind, text |-> text, handler |-> "none",
               raised |-> FALSE, replies |-> <<>>, now |-> NoTime, env |-> NO_REMOTE]
    /\ UNCHANGED <<conv, user_data, sheet, entered, report>>

ud(k) == user_data[userOf(k)]

\* ------------------------------------------------------------- updates
CmdStart(k) == Handled(k, "/start", <<>>, "start", start(ud(k), sheet), NoTime, NO_REMOTE)

CmdHelp(k) == Handled(k, "/help", <<>>, "help_cmd", help_cmd(ud(k), sheet), NoTime, NO_REMOTE)

\* allow_reentry=True: /catat inside a conversation starts it again
CmdCatat_Reentry(k) ==
    Handled(k, "/catat", <<>>, "catat_start", catat_start(ud(k), sheet), NoTime, NO_REMOTE)

\* entry point of the conversation; inside a conversation nothing accepts /catat
CmdCatat(k) ==
    IF conv[k] = NoState
    THEN Handled(k, "/catat", <<>>, "catat_start", catat_start(ud(k), sheet), NoTime, NO_REMOTE)
    ELSE Dropped(k, "/catat", <<>>)

\* fallback of the conversation; outside a conversation nothing accepts /cancel
CmdCancel(k) ==
    IF conv[k] # NoState
    THEN Handled(k, "/cancel", <<>>, "cancel", cancel(ud(k), sheet), NoTime, NO_REMOTE)
    ELSE Dropped(k, "/cancel", <<>>)

\* a text message that is not a command: the handler of the key's state
MsgJumlah(k, text) ==
    /\ conv[k] = JUMLAH
    /\ Handled(k, "text", text, "catat_jumlah", catat_jumlah(text, ud(k), sheet),
               NoTime, NO_REMOTE)

MsgJenis(k, text) ==
    /\ conv[k] = JENIS
    /\ Handled(k, "text", text, "catat_jenis", catat_jenis(text, ud(k), sheet),
               NoTime, NO_REMOTE)

MsgKategori(k, text) ==
    /\ conv[k] = KATEGORI
    /\ Handled(k, "text", text, "catat_kategori", catat_kategori(text, ud(k), sheet),
               NoTime, NO_REMOTE)

MsgDeskripsi(k, text) ==
    /\ conv[k] = DESKRIPSI
    /\ Handled(k, "text", text, "catat_deskripsi", catat_deskripsi(text, ud(k), sheet),
               NoTime, NO_REMOTE)

\* the reply to the confirmation prompt; only an affirmative one reads the clock
\* and calls the remote store
MsgKonfirm(k, text, now, env) ==
    /\ conv[k] = KONFIRM
    /\ IF affirmative(text)
       THEN Handled(k, "text", text, "catat_konfirm",
                    catat_konfirm(text, ud(k), sheet, userOf(k), now, env), now, env)
       ELSE /\ now = MaxTime
            /\ env = OK
            /\ Handled(k, "text", text, "catat_konfirm",
                       catat_konfirm(text, ud(k), sheet, userOf(k), NoTime, NO_REMOTE),
                       NoTime, NO_REMOTE)

\* outside a conversation nothing accepts a text message
MsgIdle(k, text) ==
    /\ conv[k] = NoState
    /\ Dropped(k, "text", text)

CmdLaporanMinggu(k, now, env) ==
    Handled(k, "/laporan_minggu", <<>>, "laporan_minggu",
            laporan_minggu(ud(k), sheet, now, env), now, env)

CmdLaporanBulan(k, now, env) ==
    Handled(k, "/laporan_bulan", <<>>, "laporan_bulan",
            laporan_bulan(ud(k), sheet, now, env), now, env)

CmdTips(k) ==
    Handled(k, "/tips", <<>>, "tips_cmd", tips_cmd(ud(k), sheet), NoTime, NO_REMOTE)

CmdSheet(k, env) ==
    Handled(k, "/sheet", <<>>, "sheet_link", sheet_link(ud(k), sheet, env), NoTime, env)

\* ------------------------------------------------------------- specification
NoOut == [key |-> <<1, 1>>, kind |-> "none", text |-> <<>>, handler |-> "none",
          raised |-> FALSE, replies |-> <<>>, now |-> NoTime, env |-> NO_REMOTE]

Init ==
    /\ conv = [k \in Keys |-> NoState]
    /\ user_data = [u \in Users |-> EmptyDict]
    /\ sheet = <<>>
    /\ out = NoOut
    /\ entered = [k \in Keys |-> EmptyDict]
    /\ records = <<>>
    /\ since_date = NoTime
    /\ summary = <<>>

\* the remote store refuses the append once the sheet holds MaxRows rows
KonfirmEnvs == {OK, CONNECT_FAILS, APPEND_FAILS} \ (IF Len(sheet) < MaxRows THEN {} ELSE {OK})
LaporanEnvs == {OK, CONNECT_FAILS, READ_FAILS}
SheetEnvs == {OK, CONNECT_FAILS}

Next ==
    \E k \in Keys :
        \/ CmdStart(k)
        \/ CmdHelp(k)
        \/ CmdCatat(k)
        \/ CmdCancel(k)
        \/ \E text \in AmountTexts : MsgJumlah(k, text)
        \/ \E text \in TypeTexts : MsgJenis(k, text)
        \/ \E text \in CategoryTexts : MsgKategori(k, text)
        \/ \E text \in DescriptionTexts : MsgDeskripsi(k, text)
        \/ \E text \in ConfirmTexts, now \in Times, env \in KonfirmEnvs :
              MsgKonfirm(k, text, now, env)
        \/ \E text \in {YA} : MsgIdle(k, text)
        \/ \E now \in Times, env \in LaporanEnvs : CmdLaporanMinggu(k, now, env)
        \/ \E now \in Times, env \in LaporanEnvs : CmdLaporanBulan(k, now, env)
        \/ CmdTips(k)
        \/ \E env \in SheetEnvs : CmdSheet(k, env)

Spec == Init /\ [][Next]_vars

\* ------------------------------------------------------------- amount prompt
\* One user's dialog, answering the amount prompt with every text of up to
\* MaxLen characters over the alphabet.
Alphabet == {"1", "5", ".", ",", "-", " ", "a"}

RECURSIVE TextsOfLen(_)
TextsOfLen(n) ==
    IF n = 0 THEN {<<>>}
    ELSE {Append(t, c) : t \in TextsOfLen(n - 1), c \in Alphabet}

\* Filters.text: a message with an empty text is no text message
AllTexts == UNION {TextsOfLen(n) : n \in 1..MaxLen}

NextJumlah ==
    \E k \in {<<1, 1>>} :
        \/ CmdCatat(k)
        \/ \E text \in AllTexts : MsgJumlah(k, text)

SpecJumlah == Init /\ [][NextJumlah]_vars

\* ------------------------------------------------------------- summary
\* generate_summary applied to every list of up to MaxRecords records of the
\* domain below, for every window start.
Dates == 0..(MaxTime + 1)
DateEntries ==
    {EmptyDict,
     [Tanggal |-> EmptyText],
     [Tanggal |-> PyStr(<<"x">>)],
     [Tanggal |-> PyStr(<<"x", " ", "y">>)],
     [Tanggal |-> PyInt(5)],
     [Tanggal |-> EmptyText, Timestamp |-> PyDate([fmt |-> DATETIME_FMT, t |-> MaxTime])]}
    \cup {[Tanggal |-> PyDate([fmt |-> DATETIME_FMT, t |-> t])] : t \in Dates}
    \cup {[tanggal |-> PyDate([fmt |-> DATE_FMT, t |-> t])] : t \in Dates}
    \cup {[Timestamp |-> PyDate([fmt |-> DATETIME_FMT, t |-> t])] : t \in Dates}

TypeEntries ==
    {EmptyDict,
     [Jenis |-> EmptyText],
     [Jenis |-> PyStr(<<"P", "e", "m", "a", "s", "u", "k", "a", "n">>)],
     [Jenis |-> PyStr(PENGELUARAN)],
     [Jenis |-> PyStr(<<" ">> \o PEMASUKAN)],
     [Jenis |-> PyStr(<<"l", "a", "i", "n">>)],
     [Jenis |-> PyInt(1)],
     [jenis |-> PyStr(PEMASUKAN \o <<" ", "x">>)],
     [k \in {"Jenis (Pemasukan/Pengeluaran)"} |-> PyStr(PEMASUKAN)]}

AmountEntries ==
    {EmptyDict,
     [Jumlah |-> EmptyText],
     [Jumlah |-> PyInt(3)],
     [Jumlah |-> PyStr(<<"x">>)],
     [Jumlah |-> PyStr(<<"1", ".", "5">>)],
     [jumlah |-> PyInt(4)]}

CategoryEntries ==
    {EmptyDict,
     [Kategori |-> EmptyText],
     [Kategori |-> PyStr(<<"m", "a", "k", "a", "n">>)],
     [kategori |-> PyStr(<<"g", "a", "j", "i">>)]}

\* the dict with the entries of both
Merge(a, b) == [k \in DOMAIN a \cup DOMAIN b |-> IF k \in DOMAIN a THEN a[k] ELSE b[k]]
Record(d, t, a, c) == Merge(Merge(d, t), Merge(a, c))

InWindowDate == [Tanggal |-> PyDate([fmt |-> DATETIME_FMT, t |-> MaxTime])]
Makan == [Kategori |-> PyStr(<<"m", "a", "k", "a", "n">>)]

RecordDomain ==
    {Record(d, [Jenis |-> PyStr(PENGELUARAN)], [Jumlah |-> PyInt(2)], Makan) : d \in DateEntries}
    \cup {Record(InWindowDate, t, [Jumlah |-> PyInt(3)], Makan) : t \in TypeEntries}
    \cup {Record(InWindowDate, t, a, Makan) :
            t \in {[Jenis |-> PyStr(PEMASUKAN)], [Jenis |-> PyStr(PENGELUARAN)]},
            a \in AmountEntries}
    \cup {Record(InWindowDate, t, [Jumlah |-> PyInt(2)], c) :
            t \in {[Jenis |-> PyStr(PEMASUKAN)], [Jenis |-> PyStr(PENGELUARAN)]},
            c \in CategoryEntries}

InitSummary ==
    /\ conv = [k \in Keys |-> NoState]
    /\ user_data = [u \in Users |-> EmptyDict]
    /\ sheet = <<>>
    /\ out = NoOut
    /\ entered = [k \in Keys |-> EmptyDict]
    /\ \E n \in 0..MaxRecords : records \in [1..n -> RecordDomain]
    /\ since_date \in Times
    /\ summary = <<>>

\* a call whose totals and category map start from those of the call before
Summarize_Carried ==
    /\ Len(summary) < MaxCalls
    /\ summary' = Append(summary,
                         IF summary = <<>> THEN generate_summary(records, since_date)
                         ELSE summaryLoop(summary[Len(summary)], records, 1, since_date))
    /\ UNCHANGED <<conv, user_data, sheet, out, entered, records, since_date>>

\* one call of generate_summary(records, since_date); summary lists the results
\* of the calls made so far
Summarize ==
    /\ Len(summary) < MaxCalls
    /\ summary' = Append(summary, generate_summary(records, since_date))
    /\ UNCHANGED <<conv, user_data, sheet, out, entered, records, since_date>>

NextSummary == Summarize

SpecSummary == InitSummary /\ [][NextSummary]_vars

\* ------------------------------------------------------------- float amounts
\* Summaries of records whose Jumlah cells hold fractions: get_all_records
\* turns a cell showing 0.1 or 1.1 into float('0.1') = 0x1.999999999999ap-4 and
\* float('1.1') = 0x1.199999999999ap+0.
MaxFloatRecords == 3

Float_0_1 ==
    <<<<"1">> \o repeat(<<"1", "0", "0", "1">>, 12) \o <<"1", "0", "1">>, -55, BINARY64>>
Float_1_1 ==
    <<<<"1", "0", "0", "0", "1">> \o repeat(<<"1", "0", "0", "1">>, 11) \o <<"1", "0", "1">>,
      -51, BINARY64>>

FloatAmounts == {PyInt(2), PyFloat(Float_0_1), PyFloat(Float_1_1)}

FloatRecordDomain ==
    {Record(InWindowDate, [Jenis |-> PyStr(t[1])], [Jumlah |-> a], [Kategori |-> PyStr(t[2])]) :
        t \in {<<PENGELUARAN, <<"a">>>>, <<PENGELUARAN, <<"b">>>>, <<PEMASUKAN, <<"a">>>>},
        a \in FloatAmounts}

InitFloat ==
    /\ conv = [k \in Keys |-> NoState]
    /\ user_data = [u \in Users |-> EmptyDict]
    /\ sheet = <<>>
    /\ out = NoOut
    /\ entered = [k \in Keys |-> EmptyDict]
    /\ \E n \in 0..MaxFloatRecords : records \in [1..n -> FloatRecordDomain]
    /\ since_date = MaxTime
    /\ summary = <<>>

SpecFloat == InitFloat /\ [][NextSummary]_vars


\* ------------------------------------------------------------- report document
\* One user's dialogs and reports, the description prompt answered with texts
\* that hold a comma, a quote character or a line break (a Telegram text
\* message may span several lines; strip() removes only the ends).
CsvDescriptionTexts ==
    {<<"n", "a", "s", "i">>, <<"a", ",", "b">>, <<"a", "\"", "b">>, <<"a", "\n", "b">>}

NextCsv ==
    \E k \in {<<1, 1>>} :
        \/ CmdCatat(k)
        \/ \E text \in {<<"5">>} : MsgJumlah(k, text)
        \/ \E text \in {PEMASUKAN, PENGELUARAN} : MsgJenis(k, text)
        \/ \E text \in CategoryTexts : MsgKategori(k, text)
        \/ \E text \in CsvDescriptionTexts : MsgDeskripsi(k, text)
        \/ \E text \in {YA}, now \in Times, env \in KonfirmEnvs : MsgKonfirm(k, text, now, env)
        \/ \E now \in Times, env \in LaporanEnvs : CmdLaporanMinggu(k, now, env)
        \/ \E now \in Times, env \in LaporanEnvs : CmdLaporanBulan(k, now, env)

SpecCsv == Init /\ [][NextCsv]_vars

\* ------------------------------------------------------------- one chat
\* Every update of one chat of one user, the store taking one row more than in
\* the two-chat specification, so that a row is appended below an earlier one
\* and dialogs follow one another.
StoreRows == MaxRows + 1
StoreKonfirmEnvs ==
    {OK, CONNECT_FAILS, APPEND_FAILS} \ (IF Len(sheet) < StoreRows THEN {} ELSE {OK})

NextStore ==
    \E k \in {<<1, 1>>} :
        \/ CmdStart(k)
        \/ CmdHelp(k)
        \/ CmdCatat(k)
        \/ CmdCancel(k)
        \/ \E text \in AmountTexts : MsgJumlah(k, text)
        \/ \E text \in TypeTexts : MsgJenis(k, text)
        \/ \E text \in CategoryTexts : MsgKategori(k, text)
        \/ \E text \in DescriptionTexts : MsgDeskripsi(k, text)
        \/ \E text \in ConfirmTexts, now \in Times, env \in StoreKonfirmEnvs :
              MsgKonfirm(k, text, now, env)
        \/ \E text \in {YA} : MsgIdle(k, text)
        \/ \E now \in Times, env \in LaporanEnvs : CmdLaporanMinggu(k, now, env)
        \/ \E now \in Times, env \in LaporanEnvs : CmdLaporanBulan(k, now, env)
        \/ CmdTips(k)
        \/ \E env \in SheetEnvs : CmdSheet(k, env)

SpecStore == Init /\ [][NextStore]_vars

\* ------------------------------------------------------------- successive dialogs
\* The dialogs of one chat of one user, one after the other, each prompt
\* answered with one of two values, so that a dialog can differ from the one
\* before it in every field; a dialog ends by its confirmation, affirmative or
\* not, or by /cancel.
SuccessiveAmountTexts == {<<"5">>, <<"7">>}
SuccessiveCategoryTexts == {<<"m", "a", "k", "a", "n">>, <<"g", "a", "j", "i">>}
SuccessiveDescriptionTexts == {<<"n", "a", "s", "i">>, <<"b", "o", "n", "u", "s">>}
SuccessiveConfirmTexts == {YA, <<"b", "a", "t", "a", "l">>}

NextSuccessive ==
    \E k \in {<<1, 1>>} :
        \/ CmdCatat(k)
        \/ CmdCancel(k)
        \/ \E text \in SuccessiveAmountTexts : MsgJumlah(k, text)
        \/ \E text \in {PEMASUKAN, PENGELUARAN} : MsgJenis(k, text)
        \/ \E text \in SuccessiveCategoryTexts : MsgKategori(k, text)
        \/ \E text \in SuccessiveDescriptionTexts : MsgDeskripsi(k, text)
        \/ \E text \in SuccessiveConfirmTexts, now \in {MaxTime}, env \in StoreKonfirmEnvs :
              MsgKonfirm(k, text, now, env)

SpecSuccessive == Init /\ [][NextSuccessive]_vars

\* ------------------------------------------------------------- top categories
\* The reports over a sheet of up to MaxSheet expense rows that earlier dialogs
\* of the user wrote: row i under the i-th of NCategories one-letter categories
\* (the rows past the last category come back to the first ones), up to
\* MaxHigh rows with an amount of 2 and the others of 1, so that totals tie.
MaxSheet == 12
NCategories == 11
MaxHigh == 2
CategoryOfRow(i) == <<LowerCase[((i - 1) % NCategories) + 1]>>
ExpenseRow(i, amount) ==
    <<strftime(MaxTime), PENGELUARAN, amount, CategoryOfRow(i), <<"n", "a", "s", "i">>, 1>>

InitTop ==
    /\ conv = [k \in Keys |-> NoState]
    /\ user_data = [u \in Users |-> EmptyDict]
    /\ \E n \in 0..MaxSheet : \E high \in {h \in SUBSET (1..n) : Cardinality(h) <= MaxHigh} :
          sheet = [i \in 1..n |-> ExpenseRow(i, IF i \in high THEN 2 ELSE 1)]
    /\ out = NoOut
    /\ entered = [k \in Keys |-> EmptyDict]
    /\ records = <<>>
    /\ since_date = NoTime
    /\ summary = <<>>

NextTop ==
    \E k \in {<<1, 1>>} :
        \/ \E now \in Times : CmdLaporanMinggu(k, now, OK)
        \/ \E now \in Times : CmdLaporanBulan(k, now, OK)

SpecTop == InitTop /\ [][NextTop]_vars

\* ------------------------------------------------------------- dialog claims
\* the confirmation inputs that are an affirmative token
ExplicitConfirmations ==
    {<<"y", "a">>, <<"Y">>, <<" ", "y", "e", "s", " ">>, <<"Y", "A">>, <<"Y", "e", "s">>}

Sukses == <<Text("Sukses")>>
Gagal == <<Text("Gagal menyimpan transaksi")>>
Dibatalkan == <<Text("Transaksi dibatalkan")>>

\* the step handled a confirmation input that is an affirmative token
Confirmed == out'.handler = "catat_konfirm" /\ out'.text \in ExplicitConfirmations
AppendedOne == Len(sheet') = Len(sheet) + 1 /\ SubSeq(sheet', 1, Len(sheet)) = sheet

\* C1 as stated: a step appends a row to the store if and only if it is the
\* user's explicit confirmation at AwaitingConfirmation.
C1_AppendIffConfirmed ==
    [][(sheet' # sheet) <=> Confirmed]_vars

\* C1, amended: a row is appended only by an explicit confirmation, which
\* appends exactly one row when the connect and the append succeed and none when
\* either fails; every other step leaves the store as it is.
C1_AppendOnlyIfConfirmed ==
    [][/\ sheet' # sheet => Confirmed /\ AppendedOne
       /\ Confirmed /\ out'.env = OK => AppendedOne
       /\ Confirmed /\ out'.env # OK => sheet' = sheet]_vars

\* a confirmed dialog whose row reached the store
C1_Witness ==
    /\ out.handler = "catat_konfirm"
    /\ out.text \in ExplicitConfirmations
    /\ out.replies = Sukses
    /\ Len(sheet) = 1

\* C2: every input at AwaitingConfirmation ends the dialog, an affirmative one
\* with a success or failure reply, any other with the cancellation reply.
C2_ConfirmationEndsDialog ==
    out.handler = "catat_konfirm" =>
        /\ conv[out.key] = NoState
        /\ out.text \in ExplicitConfirmations => out.replies \in {Sukses, Gagal}
        /\ out.text \notin ExplicitConfirmations => out.replies = Dibatalkan

\* C3: a confirmed dialog whose store calls succeed appends exactly one row,
\* <<timestamp, type, int(amount), category, description, user>> of the fields
\* collected in that dialog.
C3_ConfirmedRowIsDialogFields ==
    [][Confirmed /\ out'.env = OK =>
          LET e == entered[out'.key]
          IN  /\ DOMAIN e = {"jumlah", "jenis", "kategori", "deskripsi"}
              /\ sheet' = Append(sheet, <<strftime(out'.now), e["jenis"], int(e["jumlah"]),
                                          e["kategori"], e["deskripsi"], userOf(out'.key)>>)]_vars

\* C5: /cancel in any dialog state ends the dialog, and after a cancellation
\* or a completion the session holds none of the four fields.
SessionFields == {"jumlah", "jenis", "kategori", "deskripsi"}
C5_CancelClearsSession ==
    /\ out.handler = "cancel" => conv[out.key] = NoState
    /\ out.handler \in {"cancel", "catat_konfirm"} /\ conv[out.key] = NoState =>
          DOMAIN user_data[userOf(out.key)] \cap SessionFields = {}

\* C6: the fields of a row written by a confirmation are those entered in the
\* dialog of the chat that confirmed.
C6_RowFromOwnDialog ==
    [][sheet' # sheet =>
          LET e == entered[out'.key]
              row == sheet'[Len(sheet')]
          IN  /\ DOMAIN e = SessionFields
              /\ row[2] = e["jenis"]
              /\ row[3] = int(e["jumlah"])
              /\ row[4] = e["kategori"]
              /\ row[5] = e["deskripsi"]]_vars

\* C7: an update whose remote call fails is answered by one plain failure
\* message (and by no report).
FailureReplies == {Gagal, <<Text("Gagal mendapatkan link spreadsheet")>>}
C7_RemoteFailureSurfaced ==
    out.env \in {CONNECT_FAILS, APPEND_FAILS, READ_FAILS} =>
        ~out.raised /\ out.replies \in FailureReplies

\* C8: append_transaction answers True exactly when the row was appended and
\* False, with the store unchanged, when the append fails; read_all_transactions
\* gives every stored row in order, or no row when the read fails; neither
\* raises.  The answers are seen in the reply of catat_konfirm and in the
\* document of the reports.
IsReport == out'.handler \in {"laporan_minggu", "laporan_bulan"}
C8_GatewayAnswers ==
    [][/\ out'.handler = "catat_konfirm" /\ out'.env = APPEND_FAILS =>
             ~out'.raised /\ out'.replies = Gagal /\ sheet' = sheet
       /\ out'.handler = "catat_konfirm" /\ out'.env = OK =>
             ~out'.raised /\ out'.replies = Sukses /\ AppendedOne
       /\ IsReport /\ out'.env = READ_FAILS =>
             /\ ~out'.raised /\ sheet' = sheet /\ Len(out'.replies) = 2
             /\ out'.replies[2].data = <<CSV_HEADER>>
       /\ IsReport /\ out'.env = OK =>
             /\ ~out'.raised /\ sheet' = sheet /\ Len(out'.replies) = 2
             /\ Len(out'.replies[2].data) = Len(sheet) + 1
             /\ \A i \in DOMAIN sheet :
                   /\ out'.replies[2].data[i + 1][1] = PyDate(sheet[i][1])
                   /\ out'.replies[2].data[i + 1][2] = PyStr(sheet[i][2])
                   /\ out'.replies[2].data[i + 1][3].n = sheet[i][3]
                   /\ out'.replies[2].data[i + 1][4] = PyStr(sheet[i][4])
                   /\ out'.replies[2].data[i + 1][5] = PyStr(sheet[i][5])
                   /\ out'.replies[2].data[i + 1][6] = PyInt(sheet[i][6])]_vars

\* a failed read of a sheet that holds a row
C8_Witness ==
    /\ out.handler = "laporan_minggu"
    /\ out.env = READ_FAILS
    /\ Len(sheet) = 1
    /\ out.replies[2].data = <<CSV_HEADER>>

\* ------------------------------------------------------------- amount claim
\* the text, stripped and without its commas, is a non-negative number: digits
\* with at most one decimal point
IsNumber(t) ==
    /\ \A i \in DOMAIN t : t[i] \in Range(Digits) \cup {"."}
    /\ \E i \in DOMAIN t : t[i] \in Range(Digits)
    /\ Cardinality({i \in DOMAIN t : t[i] = "."}) <= 1

Cleaned(text) == remove(strip(text), ",")

\* C4: an amount input is accepted (stored, dialog at AwaitingType) iff the
\* cleaned text is a non-negative number; otherwise the user is re-prompted,
\* the dialog stays at AwaitingAmount and no amount is stored.
C4_AmountAcceptedIffNumber ==
    out.handler = "catat_jumlah" =>
        IF IsNumber(Cleaned(out.text))
        THEN /\ conv[out.key] = JENIS
             /\ Has(user_data[userOf(out.key)], "jumlah")
        ELSE /\ conv[out.key] = JUMLAH
             /\ out.replies = <<Text("Jumlah tidak valid")>>
             /\ ~Has(user_data[userOf(out.key)], "jumlah")

\* ------------------------------------------------------------- summary claims
result == summary[1]
counted == Range(result.income) \cup Range(result.expense)

\* what the spec calls a record's stored timestamp, type, amount and category
StoredTimestamp(r) == or(or(get(r, "Tanggal"), get(r, "tanggal")), get(r, "Timestamp"))
StoredType(r) ==
    or(or(get(r, "Jenis"), get(r, "jenis")), get(r, "Jenis (Pemasukan/Pengeluaran)"))
StoredAmount(r) == or(or(get(r, "Jumlah"), get(r, "jumlah")), PyInt(0))
StoredCategory(r) == or(or(get(r, "Kategori"), get(r, "kategori")), PyStr(LAIN_LAIN))

InWindow(r) == StoredTimestamp(r).py = "date" /\ StoredTimestamp(r).d.t >= since_date
NumericAmount(r) == ~pyFloatRaises(StoredAmount(r))
TextType(r) == StoredType(r).py \in {"str", "None"} \/ ~truthy(StoredType(r))
WellFormed(r) == NumericAmount(r) /\ TextType(r)
IncomeType(r) ==
    /\ StoredType(r).py = "str"
    /\ Len(StoredType(r).s) >= Len(PEMASUKAN)
    /\ \A i \in DOMAIN PEMASUKAN : lowerChar(StoredType(r).s[i]) = PEMASUKAN[i]

RECURSIVE SumAmounts(_)
SumAmounts(I) ==
    IF I = {} THEN <<0, 1>>
    ELSE LET i == CHOOSE i \in I : TRUE
         IN  addFloat(pyFloat(StoredAmount(records[i])), SumAmounts(I \ {i}))

InWindowRecords == {i \in DOMAIN records : InWindow(records[i])}
Countable == {i \in InWindowRecords : WellFormed(records[i])}

\* C9 as stated: the records counted are exactly those whose stored timestamp
\* is >= sinceTimestamp.
C9_CountsExactlyWindow ==
    summary # <<>> => counted = InWindowRecords

\* C9, amended: the records counted are exactly those whose stored timestamp
\* parses and is >= sinceTimestamp and whose amount is numeric and type is text
\* (or empty); a timestamp equal to sinceTimestamp counts, an earlier, missing
\* or unparseable one does not, and the totals are the sum over the counted
\* records whatever the other records of the list are.
C9_CountsWellFormedInWindow ==
    summary # <<>> =>
        /\ counted = Countable
        /\ addFloat(result.total_pemasukan, result.total_pengeluaran) = SumAmounts(Countable)

\* a record dated exactly at the window start is counted beside an unparseable
\* one and an earlier one is not
C9_Witness ==
    /\ summary # <<>>
    /\ Len(records) = 2
    /\ StoredTimestamp(records[1]).py = "str"
    /\ InWindow(records[2]) /\ StoredTimestamp(records[2]).d.t = since_date
    /\ counted = {2}
    /\ result.total_pengeluaran = <<2, 1>>

IncomeOf(I) == {i \in I : IncomeType(records[i])}
ExpenseOf(I) == {i \in I : ~IncomeType(records[i])}
Labels(I) == {StoredCategory(records[i]) : i \in I}

\* the category map holds exactly one entry per label of the records I, each the
\* sum of the amounts of the records under that label
CategoryMapOf(I) ==
    /\ {result.by_category[j][1] : j \in DOMAIN result.by_category} = Labels(I)
    /\ Cardinality(Labels(I)) = Len(result.by_category)
    /\ \A j \in DOMAIN result.by_category :
          result.by_category[j][2] =
              SumAmounts({i \in I : StoredCategory(records[i]) = result.by_category[j][1]})

ClassifiedBy(I) ==
    /\ Range(result.income) = IncomeOf(I)
    /\ Range(result.expense) = ExpenseOf(I)
    /\ Len(result.income) + Len(result.expense) = Cardinality(I)
    /\ result.total_pemasukan = SumAmounts(IncomeOf(I))
    /\ result.total_pengeluaran = SumAmounts(ExpenseOf(I))
    /\ CategoryMapOf(ExpenseOf(I))

\* C10 as stated: every in-window record is in exactly one bucket, income iff
\* its type starts with "pemasukan" whatever the case, expense otherwise, and the
\* category map sums the expense records under their category or the default.
C10_EveryInWindowClassified ==
    summary # <<>> =>
        /\ Range(result.income) \cup Range(result.expense) = InWindowRecords
        /\ ClassifiedBy(InWindowRecords)

\* C10, amended: the same of every in-window record whose amount is numeric and
\* whose type is text or empty; the other in-window records are in no bucket.
C10_WellFormedClassified ==
    summary # <<>> => ClassifiedBy(Countable)

\* "Pemasukan" counted as income and a blank type as expense, in one summary
C10_Witness ==
    /\ summary # <<>>
    /\ Len(records) = 2
    /\ StoredType(records[1]) = PyStr(<<"P", "e", "m", "a", "s", "u", "k", "a", "n">>)
    /\ ~truthy(StoredType(records[2]))
    /\ result.income = <<1>>
    /\ result.expense = <<2>>
    /\ result.by_category = <<<<PyStr(<<"m", "a", "k", "a", "n">>), <<3, 1>>>>>>

\* ------------------------------------------------------------- document claim
\* the lines of a text: it is broken after each "\r\n", "\n" or "\r"
LineEnds(s) ==
    {i \in DOMAIN s :
        \/ s[i] = "\n"
        \/ s[i] = "\r" /\ ~(i < Len(s) /\ s[i + 1] = "\n")}
LastBefore(E, e) ==
    IF {b \in E : b < e} = {} THEN 0
    ELSE CHOOSE b \in E : b < e /\ \A c \in E : c < e => c <= b
LineBefore(s, e) ==
    SubSeq(s, LastBefore(LineEnds(s), e) + 1,
           IF s[e] = "\n" /\ e > 1 /\ s[e - 1] = "\r" THEN e - 2 ELSE e - 1)
Lines(s) ==
    LET E == LineEnds(s)
        last == LastBefore(E, Len(s) + 1)
    IN  [j \in 1..Cardinality(E) |->
            LineBefore(s, CHOOSE e \in E : Cardinality({b \in E : b <= e}) = j)]
        \o (IF last < Len(s) THEN <<SubSeq(s, last + 1, Len(s))>> ELSE <<>>)

Reported == out.handler \in {"laporan_minggu", "laporan_bulan"} /\ ~out.raised
HeaderLine ==
    <<"T", "a", "n", "g", "g", "a", "l", ",", "J", "e", "n", "i", "s", ",",
      "J", "u", "m", "l", "a", "h", ",", "K", "a", "t", "e", "g", "o", "r", "i", ",",
      "D", "e", "s", "k", "r", "i", "p", "s", "i", ",", "U", "s", "e", "r">>

\* C11: the document of either report has exactly N+1 lines for the N records
\* read, the header line first and then one line per record in input order,
\* whatever the records hold.
C11_CsvHeaderPlusOneLinePerRecord ==
    Reported =>
        LET lines == Lines(out.replies[2].text)
            rows == out.replies[2].data
        IN  /\ Len(lines) = Len(rows)
            /\ lines[1] = HeaderLine
            /\ \A i \in 2..Len(rows) :
                  /\ i <= Len(lines)
                  /\ startswith(lines[i], str(rows[i][1]) \o <<",">> \o str(rows[i][2]))


\* ------------------------------------------------------------- type claim
\* the type inputs that equal a type term after trimming, whatever the case,
\* and the term each of them denotes
IncomeInputs == {PEMASUKAN, <<" ">> \o PEMASUKAN \o <<" ">>}
ExpenseInputs == {<<"P", "e", "n", "g", "e", "l", "u", "a", "r", "a", "n">>}
TermOf(text) == IF text \in IncomeInputs THEN PEMASUKAN ELSE PENGELUARAN
Pilih == <<Text("Pilih pemasukan atau pengeluaran")>>

\* C12: a type input is accepted iff it equals "pemasukan" or "pengeluaran"
\* after trimming, whatever the case: then the normalized term is stored and
\* the dialog is at AwaitingCategory; any other input is re-prompted, the
\* dialog stays at AwaitingType and the session is unchanged.
C12_TypeAcceptedIffTerm ==
    [][out'.handler = "catat_jenis" =>
          LET k == out'.key
              u == userOf(out'.key)
          IN  /\ ~out'.raised
              /\ sheet' = sheet
              /\ IF out'.text \in IncomeInputs \cup ExpenseInputs
                 THEN /\ conv'[k] = KATEGORI
                      /\ user_data'[u] = Put(user_data[u], "jenis", TermOf(out'.text))
                 ELSE /\ conv'[k] = JENIS
                      /\ out'.replies = Pilih
                      /\ user_data' = user_data]_vars

\* "Pengeluaran" accepted and stored as "pengeluaran"
C12_Witness ==
    /\ out.handler = "catat_jenis"
    /\ out.text \in ExpenseInputs
    /\ conv[out.key] = KATEGORI
    /\ user_data[userOf(out.key)]["jenis"] = PENGELUARAN

\* ------------------------------------------------------------- store claims
\* C13: the store changes only by the append of a confirmation: a step of any
\* other handler leaves it as it is, and every step keeps the rows it holds, in
\* place and unmodified, adding at most one below them.
C13_OnlyConfirmationAppends ==
    [][/\ out'.handler # "catat_konfirm" => sheet' = sheet
       /\ Len(sheet') \in {Len(sheet), Len(sheet) + 1}
       /\ SubSeq(sheet', 1, Len(sheet)) = sheet]_vars

\* a second row appended below the first, then a report that read both
C13_Witness ==
    /\ Len(sheet) = 2
    /\ sheet[1] # sheet[2]
    /\ out.handler = "laporan_bulan"
    /\ ~out.raised

\* ------------------------------------------------------------- purity claim
NoTotals == [total_pemasukan |-> <<0, 1>>, total_pengeluaran |-> <<0, 1>>, by_category |-> <<>>]
Totals(res) ==
    [total_pemasukan |-> res.total_pemasukan, total_pengeluaran |-> res.total_pengeluaran,
     by_category |-> res.by_category]

Successor(state) ==
    CASE state = JUMLAH -> JENIS
      [] state = JENIS -> KATEGORI
      [] state = KATEGORI -> DESKRIPSI
      [] state = DESKRIPSI -> KONFIRM
      [] state = KONFIRM -> NoState

\* the fields stored by the time a dialog is in a state
FieldsBy(state) ==
    CASE state = JUMLAH -> {}
      [] state = JENIS -> {"jumlah"}
      [] state = KATEGORI -> {"jumlah", "jenis"}
      [] state = DESKRIPSI -> {"jumlah", "jenis", "kategori"}
      [] state = KONFIRM -> SessionFields
      [] state = NoState -> {}

StoredCategories == {sheet[i][4] : i \in DOMAIN sheet}
RowsOf(c) == {i \in DOMAIN sheet : sheet[i][4] = c}

RECURSIVE SumRows(_)
SumRows(I) ==
    IF I = {} THEN 0
    ELSE LET i == CHOOSE i \in I : TRUE IN sheet[i][3] + SumRows(I \ {i})

TotalOf(c) == SumRows(RowsOf(c))
FirstRow(c) == CHOOSE i \in RowsOf(c) : \A j \in RowsOf(c) : i <= j
Listed == out.replies[1].data.top
ListedCategories == {Listed[i][1].s : i \in DOMAIN Listed}
TopN == IF out.handler = "laporan_minggu" THEN 5 ELSE 10

\* C16: a report lists min(N, number of categories) distinct categories with
\* their totals, N = 5 for the 7-day and 10 for the 30-day report, in
\* non-increasing order of total, categories of equal total in the order of
\* their first rows, and no category left out has a larger total than a listed
\* one.
C16_TopCategories ==
    Reported =>
        /\ Len(Listed) <= TopN
        /\ Len(Listed) = Cardinality(ListedCategories)
        /\ Len(Listed) = IF Cardinality(StoredCategories) < TopN
                         THEN Cardinality(StoredCategories) ELSE TopN
        /\ \A i \in DOMAIN Listed :
              /\ Listed[i][1].s \in StoredCategories
              /\ Listed[i][2] = TotalOf(Listed[i][1].s)
        /\ \A i, j \in DOMAIN Listed :
              i < j =>
                 /\ Listed[i][2] >= Listed[j][2]
                 /\ Listed[i][2] = Listed[j][2] =>
                       FirstRow(Listed[i][1].s) < FirstRow(Listed[j][1].s)
        /\ \A c \in StoredCategories \ ListedCategories :
              \A i \in DOMAIN Listed : TotalOf(c) <= Listed[i][2]

\* a 7-day report that lists five of more than five categories, two of them tied
C16_Witness ==
    /\ out.handler = "laporan_minggu"
    /\ ~out.raised
    /\ Cardinality(StoredCategories) > 5
    /\ Len(Listed) = 5
    /\ Listed[1][2] > Listed[2][2]
    /\ Listed[4][2] = Listed[5][2]

\* ------------------------------------------------------------- totals claim
\* sum(by_category.values()): 0 + v1 + v2 + ...
RECURSIVE sumValues(_)
sumValues(items) ==
    IF items = <<>> THEN <<0, 1>>
    ELSE addFloat(sumValues(SubSeq(items, 1, Len(items) - 1)), items[Len(items)][2])

\* the sum of the amounts of the records I, added in the order of the list
RECURSIVE SumInOrder(_)
SumInOrder(I) ==
    IF I = {} THEN <<0, 1>>
    ELSE LET m == CHOOSE i \in I : \A j \in I : j <= i
         IN  addFloat(SumInOrder(I \ {m}), pyFloat(StoredAmount(records[m])))

equalFloat(a, b) == toBinary64(a) = toBinary64(b)

TotalsMatch ==
    /\ equalFloat(result.total_pengeluaran, sumValues(result.by_category))
    /\ equalFloat(addFloat(result.total_pemasukan, result.total_pengeluaran),
                  SumInOrder(counted))

\* C17 as stated: for every list of records, totalExpense equals the sum of
\* the values of the returned category map, and totalIncome + totalExpense
\* equals the sum of the amounts of exactly the records that were counted.
C17_TotalsMatch ==
    summary # <<>> => TotalsMatch

IntegerAmounts == \A i \in counted : StoredAmount(records[i]).py = "int"
UnderCategory(j) ==
    {i \in Range(result.expense) : StoredCategory(records[i]) = result.by_category[j][1]}

\* C17, amended: the two equalities hold when the amounts counted are integers
\* (what the bot writes); whatever the amounts, every counted record is in
\* exactly one of income and expense, each total is the sum of the amounts of
\* its records added in list order, and each value of the category map is the
\* sum, in list order, of the expense records of its category, every expense
\* record under one.  With fractional amounts each addition rounds, and the
\* stated sums, added in another order, can differ in the last bit.
C17_TotalsMatchForIntegers ==
    summary # <<>> =>
        /\ IntegerAmounts => TotalsMatch
        /\ Range(result.income) \cap Range(result.expense) = {}
        /\ Len(result.income) + Len(result.expense) = Cardinality(counted)
        /\ equalFloat(result.total_pemasukan, SumInOrder(Range(result.income)))
        /\ equalFloat(result.total_pengeluaran, SumInOrder(Range(result.expense)))
        /\ \A j \in DOMAIN result.by_category :
              equalFloat(result.by_category[j][2], SumInOrder(UnderCategory(j)))
        /\ \A i \in Range(result.expense) :
              \E j \in DOMAIN result.by_category : i \in UnderCategory(j)

\* integer amounts under two categories, one of them twice, and an income
C17_Witness ==
    /\ summary # <<>>
    /\ IntegerAmounts
    /\ Len(result.expense) = 2
    /\ Len(result.income) = 1
    /\ Len(result.by_category) = 1
    /\ result.by_category[1][2] = <<4, 1>>
    /\ result.total_pengeluaran = <<4, 1>>
    /\ result.total_pemasukan = <<2, 1>>

\* 0.1 under a, 0.1 under b and 1.1 under a, all expenses: the total is 1.3 and
\* the values of the map add up to 1.3000000000000003
C17_RoundingWitness ==
    /\ summary # <<>>
    /\ Len(result.expense) = 3
    /\ ~TotalsMatch
\* ------------------------------------------------------------- successive dialogs claim
SessionOf(k) == [f \in DOMAIN user_data[userOf(k)] \cap SessionFields |-> user_data[userOf(k)][f]]

\* the value a prompt's handler makes of the text it is answered with
Typed(handler, text) ==
    CASE handler = "catat_jumlah" -> float(remove(strip(text), ","))
      [] handler = "catat_jenis" -> lower(strip(text))
      [] handler = "catat_kategori" -> strip(text)
      [] handler = "catat_deskripsi" -> strip(text)

\* C18: in one chat, whatever dialogs came before and however they ended, a
\* field accepted by a dialog is the value made of the text just typed, a
\* dialog at the confirmation prompt holds in the session the four fields
\* entered in that dialog, and a row saved by its confirmation is made of those
\* four (the amount as an integer) and of no field of an earlier dialog.
C18_RowFromLaterDialogOnly ==
    [][\A k \in {<<1, 1>>} :
          /\ out'.key = k /\ out'.handler \in FieldHandlers /\ conv'[k] # conv[k] =>
                entered'[k] = Put(entered[k], FieldOf(out'.handler),
                                  Typed(out'.handler, out'.text))
          /\ conv'[k] = KONFIRM =>
                /\ DOMAIN entered'[k] = SessionFields
                /\ [f \in SessionFields |-> user_data'[userOf(k)][f]] = entered'[k]
          /\ sheet' # sheet /\ out'.key = k =>
                /\ conv[k] = KONFIRM
                /\ sheet' = Append(sheet, <<strftime(out'.now), entered[k]["jenis"],
                                            int(entered[k]["jumlah"]), entered[k]["kategori"],
                                            entered[k]["deskripsi"], userOf(k)>>)]_vars

\* a second row that differs from the first in type, amount, category and
\* description: the later dialog began with the session holding all four fields
\* of the earlier one
C18_Witness ==
    /\ out.handler = "catat_konfirm"
    /\ Len(sheet) = 2
    /\ \A f \in 2..5 : sheet[1][f] # sheet[2][f]
    /\ SessionOf(out.key) =
          [jumlah |-> <<sheet[2][3], 1>>, jenis |-> sheet[2][2],
           kategori |-> sheet[2][4], deskripsi |-> sheet[2][5]]
\* ------------------------------------------------------------- commands claim
OtherCommands ==
    {"/start", "/help", "/catat", "/laporan_minggu", "/laporan_bulan", "/tips", "/sheet"}

HandlerOf(state) ==
    CASE state = JUMLAH -> "catat_jumlah"
      [] state = JENIS -> "catat_jenis"
      [] state = KATEGORI -> "catat_kategori"
      [] state = DESKRIPSI -> "catat_deskripsi"
      [] state = KONFIRM -> "catat_konfirm"

\* C19: a command other than /cancel sent while the dialog is in a non-terminal
\* state is handled by no handler of the dialog and leaves the dialog's state,
\* the session and the fields the dialog has accepted as they are; and a text
\* sent in a dialog state is handled by the handler of that state, so the
\* dialog goes on from there.
C19_CommandsLeaveDialog ==
    [][\A k \in Keys :
          /\ conv[k] # NoState /\ out'.key = k /\ out'.kind \in OtherCommands =>
                /\ out'.handler \notin ConversationHandlers
                /\ conv'[k] = conv[k]
                /\ user_data' = user_data
                /\ entered' = entered
                /\ sheet' = sheet
          /\ conv[k] # NoState /\ out'.key = k /\ out'.kind = "text" =>
                out'.handler = HandlerOf(conv[k])]_vars

\* a weekly report sent between the type and the category of a dialog
C19_Witness ==
    /\ out.kind = "/laporan_minggu"
    /\ ~out.raised
    /\ out.replies # <<>>
    /\ conv[out.key] = KATEGORI
    /\ DOMAIN entered[out.key] = {"jumlah", "jenis"}
====
